---- MODULE Spec2Model ----
(***************************************************************************)
(* A model of the NCERT-Solver RAG core:                                   *)
(*   src/src/rag/rag_pipeline.py  RAGPipeline.__init__ (backend selection), *)
(*                                SimpleLLM.generate, generate_response     *)
(*   src/src/api/main.py          get_pipeline, generate_assessment,        *)
(*                                generate_mission                          *)
(* Text is modelled as sequences of characters or of lexical tokens, Python *)
(* None as the string "None", a raised exception as an outcome value.       *)
(***************************************************************************)
EXTENDS Integers, Sequences, FiniteSets, TLC

VARIABLES
    env,        \* os.environ: OLLAMA_MODEL and GOOGLE_API_KEY of the process
    pipeline,   \* main.py global `pipeline`: NoInstance (None) or the index of an instance in made
    made,       \* every RAGPipeline instance whose construction completed, in order
    pc,         \* per caller: position inside get_pipeline
    loc,        \* per caller: the instance built at line 27, before it is stored
    calls,      \* number of get_pipeline calls started
    surfaced,   \* the constructors whose exception some get_pipeline call has raised
    returned,   \* every instance some get_pipeline call has returned
    chat,       \* the generate_response call of this behaviour: inputs, what it consulted, outcome
    struct,     \* the /assessment or /mission call of this behaviour: inputs, steps, outcome
    gen         \* the SimpleLLM.generate call of this behaviour: inputs, steps, result

vars == <<env, pipeline, made, pc, loc, calls, surfaced, returned, chat, struct, gen>>

\* The variables the request handlers write.
handlerVars == <<chat, struct, gen>>

None == "None"
\* The global `pipeline` before any store: None, as an instance index.
NoInstance == 0

(***************************************************************************)
(* Bounds of the model.                                                    *)
(***************************************************************************)
NumCallers == 2
MaxCalls == 3

Callers == 1..NumCallers

\* The value of a handler variable before the handler has run.
NoCall == [called |-> FALSE]

(***************************************************************************)
(* Backend selection: RAGPipeline.__init__                                  *)
(***************************************************************************)
\* Values os.getenv can give for a setting: unset, set to the empty string, set.
EnvValues == {None, "", "value"}

\* Python truthiness of an os.getenv result (`if ollama_model:`).
Truthy(v) == v # None /\ v # ""

Backends == {"OllamaLLM", "GeminiLLM", "LocalLLM", "SimpleLLM"}

\* Selection with the remote tier tested before the local-runtime tier.
RAGPipelineInitGeminiFirst(ollama_model, google_api_key, vsOk, ctorOk) ==
    IF ~vsOk THEN [raised |-> "VectorStoreManager", llm |-> None]
    ELSE IF Truthy(google_api_key)
         THEN IF ctorOk THEN [raised |-> None, llm |-> "GeminiLLM"]
                        ELSE [raised |-> "GeminiLLM", llm |-> None]
    ELSE IF Truthy(ollama_model)
         THEN IF ctorOk THEN [raised |-> None, llm |-> "OllamaLLM"]
                        ELSE [raised |-> "OllamaLLM", llm |-> None]
    ELSE IF ctorOk THEN [raised |-> None, llm |-> "LocalLLM"]
                   ELSE [raised |-> None, llm |-> "SimpleLLM"]

\* RAGPipeline.__init__: vsOk is whether VectorStoreManager() returns, ctorOk
\* whether the import and constructor of the one backend attempted return.
\* Only the on-device attempt sits inside a try.
RAGPipelineInit(ollama_model, google_api_key, vsOk, ctorOk) ==
    IF ~vsOk THEN [raised |-> "VectorStoreManager", llm |-> None]
    ELSE IF Truthy(ollama_model)
         THEN IF ctorOk THEN [raised |-> None, llm |-> "OllamaLLM"]
                        ELSE [raised |-> "OllamaLLM", llm |-> None]
    ELSE IF Truthy(google_api_key)
         THEN IF ctorOk THEN [raised |-> None, llm |-> "GeminiLLM"]
                        ELSE [raised |-> "GeminiLLM", llm |-> None]
    ELSE IF ctorOk THEN [raised |-> None, llm |-> "LocalLLM"]
                   ELSE [raised |-> None, llm |-> "SimpleLLM"]

(***************************************************************************)
(* get_pipeline (main.py 23-28), called by several callers.  The function   *)
(* holds no lock: a caller can be preempted between the test of line 25,    *)
(* the construction and the store of line 27, and the read of line 28.      *)
(***************************************************************************)
SelectInit ==
    /\ env \in [OLLAMA_MODEL : EnvValues, GOOGLE_API_KEY : EnvValues]
    /\ pipeline = NoInstance
    /\ made = <<>>
    /\ pc = [t \in Callers |-> "idle"]
    /\ loc = [t \in Callers |-> NoInstance]
    /\ calls = 0
    /\ surfaced = {}
    /\ returned = {}
    /\ chat = NoCall
    /\ struct = NoCall
    /\ gen = NoCall

\* A handler calls get_pipeline().
Call(t) ==
    /\ pc[t] = "idle"
    /\ calls < MaxCalls
    /\ pc' = [pc EXCEPT ![t] = "line25"]
    /\ calls' = calls + 1
    /\ UNCHANGED <<env, pipeline, made, loc, surfaced, returned, handlerVars>>

\* line 25: if pipeline is None
TestNone(t) ==
    /\ pc[t] = "line25"
    /\ pc' = [pc EXCEPT ![t] = IF pipeline = NoInstance THEN "line27" ELSE "line28"]
    /\ UNCHANGED <<env, pipeline, made, loc, calls, surfaced, returned, handlerVars>>

\* lines 26-27, right-hand side: RAGPipeline().  An exception leaves
\* get_pipeline with the global untouched.
Construct(t) ==
    /\ pc[t] = "line27"
    /\ \E vsOk \in BOOLEAN, ctorOk \in BOOLEAN :
         LET r == RAGPipelineInit(env.OLLAMA_MODEL, env.GOOGLE_API_KEY, vsOk, ctorOk)
         IN  IF r.raised # None
             THEN /\ surfaced' = surfaced \cup {r.raised}
                  /\ pc' = [pc EXCEPT ![t] = "idle"]
                  /\ UNCHANGED <<made, loc>>
             ELSE /\ made' = Append(made, [llm |-> r.llm, ctorOk |-> ctorOk])
                  /\ loc' = [loc EXCEPT ![t] = Len(made) + 1]
                  /\ pc' = [pc EXCEPT ![t] = "store27"]
                  /\ UNCHANGED surfaced
    /\ UNCHANGED <<env, pipeline, calls, returned, handlerVars>>

\* line 27, the store to the global.
Store(t) ==
    /\ pc[t] = "store27"
    /\ pipeline' = loc[t]
    /\ pc' = [pc EXCEPT ![t] = "line28"]
    /\ UNCHANGED <<env, made, loc, calls, surfaced, returned, handlerVars>>

\* line 28: return pipeline (the global is read again).
Return(t) ==
    /\ pc[t] = "line28"
    /\ returned' = returned \cup {pipeline}
    /\ pc' = [pc EXCEPT ![t] = "idle"]
    /\ UNCHANGED <<env, pipeline, made, loc, calls, surfaced, handlerVars>>

Next ==
    \E t \in Callers :
        \/ Call(t)
        \/ TestNone(t)
        \/ Construct(t)
        \/ Store(t)
        \/ Return(t)

Spec == SelectInit /\ [][Next]_vars

\* The tier the priority order local-runtime > remote API > on-device >
\* extractive names first, given which settings are configured and whether
\* the on-device backend can be constructed.
FirstAvailableTier(localRuntime, remoteKey, onDevice) ==
    IF localRuntime THEN "OllamaLLM"
    ELSE IF remoteKey THEN "GeminiLLM"
    ELSE IF onDevice THEN "LocalLLM"
    ELSE "SimpleLLM"

\* C1: every backend RAGPipeline.__init__ selects is the first tier of the
\* order local-runtime > remote API > on-device > extractive that is
\* available, for every combination of OLLAMA_MODEL, GOOGLE_API_KEY and
\* on-device availability; with both settings configured it is the
\* local-runtime backend, and the extractive fallback is selected only when
\* neither setting is configured and the on-device construction fails.
C1_SelectionPriority ==
    \A i \in 1..Len(made) :
        LET o == Truthy(env.OLLAMA_MODEL)
            g == Truthy(env.GOOGLE_API_KEY)
        IN  /\ made[i].llm = FirstAvailableTier(o, g, made[i].ctorOk)
            /\ (o /\ g) => made[i].llm = "OllamaLLM"
            /\ made[i].llm = "SimpleLLM" => (~o /\ ~g /\ ~made[i].ctorOk)

\* C1 witness: both settings configured and a backend has been selected.
C1_Witness ==
    /\ Truthy(env.OLLAMA_MODEL) /\ Truthy(env.GOOGLE_API_KEY)
    /\ \E i \in 1..Len(made) : made[i].llm = "OllamaLLM"

\* C2: a construction failure of a generation backend, at any tier, is caught
\* at selection time and never surfaces to the caller of get_pipeline.
C2_ConstructionFailureNeverSurfaces ==
    surfaced \cap {"OllamaLLM", "GeminiLLM", "LocalLLM"} = {}

MaxDocs == 2

\* Query texts, and what langdetect.detect does on each: it raises on text
\* with no detectable features, and may give different codes for short text.
Queries == {"", "what is a leaf", "patta kya hai"}
DetectOutcomes(query) ==
    CASE query = "" -> {"raise"}
      [] query = "what is a leaf" -> {"en"}
      [] OTHER -> {"hi", "id"}

\* Values of the `language` argument: None, the empty string, codes.
Languages == {None, "", "en", "hi", "ta"}

\* Python truthiness of the language argument (`if not language:`).
LanguageGiven(language) == language # None /\ language # ""

\* Passage metadata: any subset of the four keys may be present.
MetaKeys == {"filename", "page", "grade", "subject"}
MetaValue(k) ==
    CASE k = "filename" -> "leaf.pdf" [] k = "page" -> "7"
      [] k = "grade" -> "5" [] OTHER -> "Science"
Metadatas == { [k \in K |-> MetaValue(k)] : K \in SUBSET MetaKeys }
Docs == [page_content : {"passage"}, metadata : Metadatas]

RECURSIVE SeqsUpTo(_, _)
\* All sequences over S of length at most n.
SeqsUpTo(S, n) ==
    IF n = 0 THEN {<<>>}
    ELSE LET shorter == SeqsUpTo(S, n - 1)
         IN  shorter \cup { Append(q, x) : q \in {r \in shorter : Len(r) = n - 1}, x \in S }

\* dict.get(key, default)
Get(metadata, key, default) ==
    IF key \in DOMAIN metadata THEN metadata[key] ELSE default

\* Citations with the passages taken last to first.
CitationsReversed(docs) ==
    [i \in 1..Len(docs) |->
        LET m == docs[Len(docs) + 1 - i].metadata
        IN  [source |-> Get(m, "filename", "Unknown"), page |-> Get(m, "page", "?"),
             grade |-> Get(m, "grade", "?"), subject |-> Get(m, "subject", "?")]]

\* lines 111-118: one citation per passage, in order.
Citations(docs) ==
    [i \in 1..Len(docs) |->
        LET m == docs[i].metadata
        IN  [source |-> Get(m, "filename", "Unknown"), page |-> Get(m, "page", "?"),
             grade |-> Get(m, "grade", "?"), subject |-> Get(m, "subject", "?")]]

\* Language resolution that consults the detector whatever was requested.
ResolveLanguageAlwaysDetect(language, detected) ==
    [language |-> IF detected = "raise" THEN "en" ELSE detected, detectCalled |-> TRUE]

\* lines 75-79: the requested language when truthy, else the detector's
\* result, else "en" when the detector raises.
ResolveLanguage(language, detected) ==
    IF LanguageGiven(language)
    THEN [language |-> language, detectCalled |-> FALSE]
    ELSE [language |-> IF detected = "raise" THEN "en" ELSE detected, detectCalled |-> TRUE]

NotFoundAnswer == "I am sorry, but I don't have information about that in my NCERT knowledge base."

\* lines 126-145: the Hindi template for "hi", the English one otherwise.
BuildPrompt(query, context, lang) ==
    [template |-> IF lang = "hi" THEN "hi" ELSE "en", context |-> context, query |-> query]

\* lines 95-98: the dict returned when the search gives no passage.
NotFoundResult(language) ==
    [answer |-> NotFoundAnswer, citations |-> <<>>]

\* generate_response as one step; requests share no state, so a behaviour
\* follows one request.  searchOk is whether vector_store.search
\* returns, docs the passages it returns; generated is "raise" or "text", the outcome of llm.generate
\* (the extractive SimpleLLM catches everything and always returns text).
GenerateResponse ==
    /\ pipeline # NoInstance
    /\ ~chat.called
    /\ \E query \in Queries, language \in Languages,
          searchOk \in BOOLEAN, docs \in SeqsUpTo(Docs, MaxDocs),
          generated \in {"raise", "text"} :
         \E detected \in DetectOutcomes(query) :
            LET llm == made[pipeline].llm
                res == ResolveLanguage(language, detected)
                lang == res.language
                call == [called |-> TRUE, query |-> query, requested |-> language,
                         detected |-> IF res.detectCalled THEN detected ELSE None,
                         detectCalled |-> res.detectCalled, language |-> lang,
                         searchOk |-> searchOk, docs |-> docs]
            IN  /\ (llm = "SimpleLLM") => generated = "text"
                /\ ~searchOk => docs = <<>>
                /\ chat' =
                     IF ~searchOk
                     THEN call @@ [outcome |-> "raised", llmCalled |-> FALSE]
                     ELSE IF docs = <<>>
                     THEN call @@ [outcome |-> "returned", llmCalled |-> FALSE,
                                   result |-> NotFoundResult(lang)]
                     ELSE IF generated = "raise"
                     THEN call @@ [outcome |-> "raised", llmCalled |-> TRUE]
                     ELSE call @@ [outcome |-> "returned", llmCalled |-> TRUE,
                                   result |->
                                     [answer |-> [by |-> llm,
                                                  prompt |-> BuildPrompt(query,
                                                     [i \in 1..Len(docs) |-> docs[i].page_content], lang),
                                                  language |-> lang],
                                      citations |-> Citations(docs),
                                      response_language |-> lang]]
    /\ UNCHANGED <<env, pipeline, made, pc, loc, calls, surfaced, returned, struct, gen>>

\* A process whose pipeline has been built: any backend the selector can choose.
AnswerInit ==
    /\ env \in [OLLAMA_MODEL : {None, "value"}, GOOGLE_API_KEY : {None, "value"}]
    /\ \E ctorOk \in BOOLEAN :
         LET r == RAGPipelineInit(env.OLLAMA_MODEL, env.GOOGLE_API_KEY, TRUE, ctorOk)
         IN  /\ r.raised = None
             /\ made = <<[llm |-> r.llm, ctorOk |-> ctorOk]>>
    /\ pipeline = 1
    /\ pc = [t \in Callers |-> "idle"]
    /\ loc = [t \in Callers |-> NoInstance]
    /\ calls = 1
    /\ surfaced = {}
    /\ returned = {1}
    /\ chat = NoCall
    /\ struct = NoCall
    /\ gen = NoCall

NextAnswer == GenerateResponse

SpecAnswer == AnswerInit /\ [][NextAnswer]_vars

\* C4: when the store returns zero passages, generate_response returns,
\* without raising and without invoking the generation backend, the fixed
\* not-found message with empty citations and the resolved response language.
C4_NotFoundCarriesLanguage ==
    (chat.called /\ chat.searchOk /\ chat.docs = <<>>) =>
        /\ chat.outcome = "returned"
        /\ ~chat.llmCalled
        /\ chat.result.answer = NotFoundAnswer
        /\ chat.result.citations = <<>>
        /\ "response_language" \in DOMAIN chat.result
        /\ chat.result.response_language = chat.language

\* C5: a non-empty requested language is the resolved language and the
\* detector is not consulted; otherwise the detector's result on the query is
\* used, "en" when detection fails; resolution never raises and always yields
\* a language code, which a returned answer with passages carries.
C5_LanguageResolution ==
    chat.called =>
        /\ LanguageGiven(chat.requested) =>
              (chat.language = chat.requested /\ ~chat.detectCalled)
        /\ ~LanguageGiven(chat.requested) =>
              /\ chat.detectCalled
              /\ chat.detected \in DetectOutcomes(chat.query)
              /\ chat.language = IF chat.detected = "raise" THEN "en" ELSE chat.detected
        /\ chat.language \notin {None, "", "raise"}
        /\ chat.outcome = "raised" => (~chat.searchOk \/ chat.llmCalled)
        /\ (chat.outcome = "returned" /\ chat.docs # <<>>) =>
              chat.result.response_language = chat.language

\* C5 witness: no language requested, an empty query on which detection
\* raises, resolved to "en" in a returned answer.
C5_Witness ==
    /\ chat.called /\ chat.requested = None /\ chat.query = ""
    /\ chat.detectCalled /\ chat.detected = "raise"
    /\ chat.outcome = "returned" /\ chat.docs # <<>>
    /\ chat.result.response_language = "en"

\* C6: with a non-empty passage sequence the returned citations hold one
\* entry per passage in retrieval order, each with source, page, grade and
\* subject, a field taking its placeholder ("Unknown" for source, "?" for
\* the others) exactly when its metadata key is absent.
C6_CitationsFollowPassages ==
    (chat.called /\ chat.outcome = "returned" /\ chat.docs # <<>>) =>
        LET c == chat.result.citations
            d == chat.docs
            Field(m, k, default) == IF k \in DOMAIN m THEN m[k] ELSE default
        IN  /\ Len(c) = Len(d)
            /\ \A i \in 1..Len(d) :
                 /\ DOMAIN c[i] = {"source", "page", "grade", "subject"}
                 /\ c[i].source = Field(d[i].metadata, "filename", "Unknown")
                 /\ c[i].page = Field(d[i].metadata, "page", "?")
                 /\ c[i].grade = Field(d[i].metadata, "grade", "?")
                 /\ c[i].subject = Field(d[i].metadata, "subject", "?")

\* C6 witness: two passages returned, the first without a filename and the
\* second without a page, cited in that order.
C6_Witness ==
    /\ chat.called /\ chat.outcome = "returned" /\ Len(chat.docs) = 2
    /\ DOMAIN chat.docs[1].metadata = {"page", "grade", "subject"}
    /\ DOMAIN chat.docs[2].metadata = {"filename", "grade", "subject"}
    /\ chat.result.citations[1].source = "Unknown"
    /\ chat.result.citations[1].page = "7"
    /\ chat.result.citations[2].source = "leaf.pdf"
    /\ chat.result.citations[2].page = "?"

(***************************************************************************)
(* Structured generation: generate_assessment and generate_mission          *)
(* (main.py 198-318).  Backend output is a sequence of lexical tokens:      *)
(*   "WS"    whitespace            "FENCE" three backticks                  *)
(*   "json"  the letters json      "js"    the letters of another tag       *)
(*   "OBJ"   a JSON object with every required field, no backtick in it     *)
(*   "PART"  a JSON object that lacks a required field                      *)
(*   "HEAD"  the start of a complete JSON object, up to inside a string     *)
(*   "TAIL"  the end of that string and object                              *)
(*   "PROSE" words that are not JSON                                        *)
(***************************************************************************)
\* Whitespace: the token "WS" of backend output, and the characters of prompts.
Whitespace == {"WS", " ", "\n", "\t"}

RECURSIVE LStrip(_)
\* str.lstrip()
LStrip(s) == IF s # <<>> /\ Head(s) \in Whitespace THEN LStrip(Tail(s)) ELSE s

RECURSIVE RStrip(_)
\* str.rstrip()
RStrip(s) ==
    IF s # <<>> /\ s[Len(s)] \in Whitespace THEN RStrip(SubSeq(s, 1, Len(s) - 1)) ELSE s

\* str.strip()
Strip(s) == RStrip(LStrip(s))

\* str.startswith(prefix)
StartsWith(s, prefix) ==
    Len(s) >= Len(prefix) /\ SubSeq(s, 1, Len(prefix)) = prefix

\* str.find(sep): the first position where sep occurs, 0 when it does not.
Find(s, sep) ==
    LET hits == { i \in 1..(Len(s) - Len(sep) + 1) :
                    s[i] = sep[1] /\ SubSeq(s, i, i + Len(sep) - 1) = sep }
    IN  IF hits = {} THEN 0 ELSE CHOOSE i \in hits : \A j \in hits : i <= j

RECURSIVE Split(_, _)
\* str.split(sep): the pieces between the occurrences of sep, left to right.
Split(s, sep) ==
    LET i == Find(s, sep)
    IN  IF i = 0 THEN <<s>>
        ELSE <<SubSeq(s, 1, i - 1)>> \o Split(SubSeq(s, i + Len(sep), Len(s)), sep)

\* Tokens a JSON string literal can hold between HEAD and TAIL.
StringTokens == {"FENCE", "json", "js", "PROSE"}

\* json.loads: surrounding whitespace is skipped; the text must be exactly one
\* JSON value.  Gives the parsed object, or raises.
JsonLoads(text) ==
    LET t == Strip(text)
    IN  IF t = <<"OBJ">> THEN [raised |-> None, value |-> [json |-> t, complete |-> TRUE]]
        ELSE IF t = <<"PART">> THEN [raised |-> None, value |-> [json |-> t, complete |-> FALSE]]
        ELSE IF /\ Len(t) >= 2 /\ t[1] = "HEAD" /\ t[Len(t)] = "TAIL"
                /\ \A i \in 2..(Len(t) - 1) : t[i] \in StringTokens
        THEN [raised |-> None, value |-> [json |-> t, complete |-> TRUE]]
        ELSE [raised |-> "JSONDecodeError", value |-> None]

\* lines 251-256 and 303-308: strip, then cut a leading fence.
CleanJson(raw_response) ==
    LET clean_json == Strip(raw_response)
    IN  IF StartsWith(clean_json, <<"FENCE", "json">>)
        THEN Strip(Split(Split(clean_json, <<"FENCE", "json">>)[2], <<"FENCE">>)[1])
        ELSE IF StartsWith(clean_json, <<"FENCE">>)
        THEN Strip(Split(Split(clean_json, <<"FENCE">>)[2], <<"FENCE">>)[1])
        ELSE clean_json

\* What a backend's generate() can return.
RawResponses ==
    { pre \o open \o ws1 \o payload \o ws2 \o close \o post :
        pre \in {<<>>, <<"WS">>},
        open \in {<<>>, <<"FENCE">>, <<"FENCE", "json">>, <<"FENCE", "js">>},
        ws1 \in {<<>>, <<"WS">>},
        payload \in {<<"OBJ">>, <<"PART">>, <<"HEAD", "TAIL">>, <<"HEAD", "FENCE", "TAIL">>,
                     <<"HEAD">>, <<"PROSE">>, <<>>},
        ws2 \in {<<>>, <<"WS">>},
        close \in {<<>>, <<"FENCE">>},
        post \in {<<>>, <<"WS">>, <<"PROSE">>} }

\* k of the assessment searches (main.py 212, 216).
AssessmentK == 8

\* lines 262-268: the assessment handler's payload after any exception.
AssessmentFallback(subject) ==
    [topic |-> IF subject # None /\ subject # "" THEN subject ELSE "Study Session",
     flashcards |-> <<[q |-> "Error generating flashcards",
                       a |-> "Please try a more specific topic."]>>,
     quiz |-> <<>>]

\* lines 313-318: the mission handler's payload after any exception.
MissionFallback ==
    [mission_title |-> "Concept Deep Dive",
     description |-> "Re-examine your last studied chapter to solidify understanding.",
     target_subject |-> "General",
     reward_points |-> 20]

\* lines 249-258 and 301-310: generate, clean, parse.  generated is "raise" or "text".
GenerateAndParse(generated, raw_response) ==
    IF generated = "raise"
    THEN [raised |-> "GenerationError", value |-> None]
    ELSE JsonLoads(CleanJson(raw_response))

\* The try body of generate_assessment, lines 204-258: hits1 and hits2 are the
\* numbers of passages the first and the retry search return.
AssessmentBody(query, subject, hits1, hits2, generated, raw_response) ==
    LET retry == IF subject # None /\ subject # "" THEN subject ELSE "NCERT"
        searches == IF hits1 = 0 THEN <<query, retry>> ELSE <<query>>
        hits == IF hits1 = 0 THEN hits2 ELSE hits1
    IN  IF hits = 0
        THEN [searches |-> searches, llmCalled |-> FALSE,
              out |-> [raised |-> "HTTPException 404", value |-> None]]
        ELSE [searches |-> searches, llmCalled |-> TRUE,
              out |-> GenerateAndParse(generated, raw_response)]

\* POST /assessment, lines 198-268: every exception of the body, the
\* HTTPException of line 219 included, is caught at line 259.
GenerateAssessment ==
    /\ pipeline # NoInstance
    /\ ~struct.called
    /\ \E query \in Queries \ {""}, subject \in {None, "Science"},
          hits \in {<<0, 0>>, <<0, 1>>, <<0, AssessmentK>>, <<1, 0>>, <<AssessmentK, 0>>},
          generated \in {"raise", "text"}, raw_response \in RawResponses :
         LET hits1 == hits[1]
             hits2 == hits[2]
             b == AssessmentBody(query, subject, hits1, hits2, generated, raw_response)
         IN  /\ (made[pipeline].llm = "SimpleLLM") => generated = "text"
             /\ struct' = [called |-> TRUE, flow |-> "assessment", query |-> query,
                           subject |-> subject, hits1 |-> hits1, hits2 |-> hits2,
                           searches |-> b.searches, llmCalled |-> b.llmCalled,
                           generated |-> IF b.llmCalled THEN generated ELSE None,
                           raw |-> IF b.llmCalled /\ generated = "text" THEN raw_response ELSE <<>>,
                           caught |-> b.out.raised,
                           result |-> IF b.out.raised # None
                                      THEN [kind |-> "fallback", payload |-> AssessmentFallback(subject)]
                                      ELSE [kind |-> "parsed", payload |-> b.out.value]]
    /\ UNCHANGED <<env, pipeline, made, pc, loc, calls, surfaced, returned, chat, gen>>

\* POST /mission, lines 269-318.
GenerateMission ==
    /\ pipeline # NoInstance
    /\ ~struct.called
    /\ \E generated \in {"raise", "text"}, raw_response \in RawResponses :
         LET out == GenerateAndParse(generated, raw_response)
         IN  /\ (made[pipeline].llm = "SimpleLLM") => generated = "text"
             /\ struct' = [called |-> TRUE, flow |-> "mission", query |-> None,
                           subject |-> None, hits1 |-> 0, hits2 |-> 0,
                           searches |-> <<>>, llmCalled |-> TRUE,
                           generated |-> generated,
                           raw |-> IF generated = "text" THEN raw_response ELSE <<>>,
                           caught |-> out.raised,
                           result |-> IF out.raised # None
                                      THEN [kind |-> "fallback", payload |-> MissionFallback]
                                      ELSE [kind |-> "parsed", payload |-> out.value]]
    /\ UNCHANGED <<env, pipeline, made, pc, loc, calls, surfaced, returned, chat, gen>>

NextStructured == GenerateAssessment \/ GenerateMission

SpecStructured == AnswerInit /\ [][NextStructured]_vars

\* A payload that fits its flow's schema: the four mission fields; or a
\* topic, at least 4 flashcards of {q, a} and at least 3 quiz items of
\* {q, options[4], correct}.
SchemaValid(flow, payload) ==
    IF flow = "mission"
    THEN {"mission_title", "description", "target_subject", "reward_points"} \subseteq DOMAIN payload
    ELSE /\ {"topic", "flashcards", "quiz"} \subseteq DOMAIN payload
         /\ Len(payload.flashcards) >= 4
         /\ \A i \in 1..Len(payload.flashcards) : DOMAIN payload.flashcards[i] = {"q", "a"}
         /\ Len(payload.quiz) >= 3
         /\ \A i \in 1..Len(payload.quiz) :
              /\ DOMAIN payload.quiz[i] = {"q", "options", "correct"}
              /\ Len(payload.quiz[i].options) = 4

\* A backend output that is valid JSON inside a Markdown fence: optional
\* whitespace, the opening fence, an optional language tag, the JSON text,
\* the closing fence, optional whitespace.
FencedJson(raw) ==
    LET t == Strip(raw)
    IN  /\ Len(t) >= 3 /\ t[1] = "FENCE" /\ t[Len(t)] = "FENCE"
        /\ LET inner == SubSeq(t, 2, Len(t) - 1)
               body == IF inner[1] \in {"json", "js"} THEN Tail(inner) ELSE inner
           IN  JsonLoads(body).raised = None

\* The JSON object inside a fenced output.
FencedValue(raw) ==
    LET t == Strip(raw)
        inner == SubSeq(t, 2, Len(t) - 1)
        body == IF inner[1] \in {"json", "js"} THEN Tail(inner) ELSE inner
    IN  JsonLoads(body).value

\* C7: when the first assessment search finds nothing, the search is retried
\* exactly once with the subject (or "NCERT"); when the retry finds nothing
\* either, the caller gets a "no content" signal that is neither a generated
\* nor a fallback payload, and the backend is not invoked.
C7_NoContentSignalled ==
    (struct.called /\ struct.flow = "assessment") =>
        /\ struct.hits1 = 0 =>
              struct.searches = <<struct.query,
                                  IF struct.subject # None THEN struct.subject ELSE "NCERT">>
        /\ struct.hits1 # 0 => struct.searches = <<struct.query>>
        /\ (struct.hits1 = 0 /\ struct.hits2 = 0) =>
              /\ ~struct.llmCalled
              /\ struct.result.kind = "no_content"

\* C8: in both flows, backend output that does not parse, or parses to an
\* object missing required fields, raises nothing and yields the flow's
\* static fallback payload, and that payload is schema-valid for the flow.
C8_FallbackOnBadOutput ==
    (struct.called /\ struct.llmCalled /\ struct.generated = "text") =>
        LET parsed == JsonLoads(CleanJson(struct.raw))
            fallback == IF struct.flow = "mission" THEN MissionFallback
                        ELSE AssessmentFallback(struct.subject)
        IN  (parsed.raised # None \/ ~parsed.value.complete) =>
                /\ struct.result.kind = "fallback"
                /\ struct.result.payload = fallback
                /\ SchemaValid(struct.flow, struct.result.payload)

\* C9: in both flows, backend output that is valid JSON wrapped in a Markdown
\* fence, with or without a language tag and with surrounding whitespace,
\* yields the parsed JSON object, not the fallback.
C9_FencedJsonParsed ==
    (struct.called /\ struct.llmCalled /\ struct.generated = "text" /\ FencedJson(struct.raw)) =>
        /\ struct.result.kind = "parsed"
        /\ struct.result.payload = FencedValue(struct.raw)

(***************************************************************************)
(* SimpleLLM.generate (rag_pipeline.py 29-66), the extractive fallback.     *)
(* A prompt is a sequence of characters.                                    *)
(***************************************************************************)
\* Program constants of SimpleLLM.generate.
MinLineLen == 15
MaxSentences == 4
MaxAnswerLen == 400

\* The literal 'Context:'.
Marker == <<"C", "o", "n", "t", "e", "x", "t", ":">>

Dashes == <<"-", "-", "-">>

\* n copies of the character c.
Rep(c, n) == [i \in 1..n |-> c]

RECURSIVE Join(_, _)
\* sep.join(pieces)
Join(pieces, sep) ==
    IF pieces = <<>> THEN <<>>
    ELSE IF Len(pieces) = 1 THEN pieces[1]
    ELSE pieces[1] \o sep \o Join(Tail(pieces), sep)

\* s[:n]
Take(s, n) == SubSeq(s, 1, IF Len(s) < n THEN Len(s) ELSE n)

\* s.rsplit(' ', 1)[0]: what precedes the last space, s itself without one.
RSplitHead(s) ==
    LET spaces == { i \in 1..Len(s) : s[i] = " " }
    IN  IF spaces = {} THEN s
        ELSE SubSeq(s, 1, (CHOOSE i \in spaces : \A j \in spaces : j <= i) - 1)

RECURSIVE Qualifying(_)
\* lines 41-45: the stripped lines that are non-empty, longer than 15
\* characters and do not start with '---'.
Qualifying(lines) ==
    IF lines = <<>> THEN <<>>
    ELSE LET sl == Strip(Head(lines))
         IN  (IF sl # <<>> /\ Len(sl) > MinLineLen /\ ~StartsWith(sl, Dashes)
              THEN <<sl>> ELSE <<>>) \o Qualifying(Tail(lines))

\* lines 34-45: the context is parts[1] of the split on 'Context:' when the
\* split gives more than one part, the whole prompt otherwise.
Sentences(prompt) ==
    LET parts == Split(prompt, Marker)
        ctx == IF Len(parts) > 1 THEN parts[2] ELSE prompt
    IN  Qualifying(Split(ctx, <<"\n">>))

\* lines 49-51: the first 4 sentences joined by spaces, cut when over 400.
EnglishAnswer(sentences) ==
    LET answer == Join(Take(sentences, MaxSentences), <<" ">>)
    IN  IF Len(answer) > MaxAnswerLen
        THEN RSplitHead(Take(answer, MaxAnswerLen)) \o <<".">>
        ELSE answer

\* line 61: the note appended when translation fails.
Note(language) ==
    <<"\n", "[Note: Response in ", language, " unavailable. English provided above.]">>

\* The text Translator.translate returns for an answer.
Translated(answer, language) == <<"translation to", language, "of">> \o answer

NoInformation == <<"I don't have information about that in my NCERT knowledge base.">>

\* Translation whose failure is left to the outer handler of line 64.
TranslateStepPropagates(answer, language, outcome) ==
    IF language # None /\ language # "" /\ language # "en"
    THEN IF outcome = "raise"
         THEN [text |-> NoInformation, translateCalled |-> TRUE]
         ELSE [text |-> Translated(answer, language), translateCalled |-> TRUE]
    ELSE [text |-> answer, translateCalled |-> FALSE]

\* lines 53-63: translate unless the language is unset or 'en'; outcome is
\* "raise" or "ok", what the import, Translator() and translate() do.
TranslateStep(answer, language, outcome) ==
    IF language # None /\ language # "" /\ language # "en"
    THEN IF outcome = "raise"
         THEN [text |-> answer \o Note(language), translateCalled |-> TRUE]
         ELSE [text |-> Translated(answer, language), translateCalled |-> TRUE]
    ELSE [text |-> answer, translateCalled |-> FALSE]

\* SimpleLLM.generate(prompt, language)
Generate(prompt, language, outcome) ==
    LET sentences == Sentences(prompt)
    IN  IF sentences # <<>>
        THEN TranslateStep(EnglishAnswer(sentences), language, outcome)
        ELSE [text |-> NoInformation, translateCalled |-> FALSE]

\* Most lines of context in a prompt of the model.
MaxLines == 2

\* Lines a context can hold: empty, too short, just long enough, padded with
\* whitespace, a passage separator, a long row of dashes, a line of text that
\* starts with three dashes, words, a long line of words (two of them exceed
\* 400 characters), and a line of more than 400 characters without a space.
LinePool ==
    { <<>>, Rep("a", MinLineLen), Rep("a", MinLineLen + 1),
      <<" ", " ">> \o Rep("b", MinLineLen + 1) \o <<" ">>,
      Dashes, Rep("-", MinLineLen + 5),
      Dashes \o <<" ">> \o Rep("f", MinLineLen + 1),
      Rep("c", 9) \o <<" ">> \o Rep("c", 9),
      Join([i \in 1..21 |-> Rep("d", 9)], <<" ">>),
      Rep("e", MaxAnswerLen + 1) }

\* Prompts: lines of context, bare, after three lines of instructions (a
\* template without the marker), after the instructions and the marker of
\* _build_prompt, or with a question that mentions the marker again.
Prompts ==
    LET bodies == { Join(ls, <<"\n">>) : ls \in SeqsUpTo(LinePool, MaxLines) }
        instructions == Rep("i", MinLineLen + 3) \o <<"\n">> \o Rep("j", MinLineLen + 3)
                          \o <<"\n">> \o Rep("k", MinLineLen + 3) \o <<"\n", "\n">>
    IN  bodies
        \cup { instructions \o b : b \in bodies }
        \cup { instructions \o Marker \o <<"\n">> \o b : b \in bodies }
        \cup { instructions \o Marker \o <<"\n">> \o b \o <<"\n">> \o Marker \o <<" ">> \o Rep("q", MinLineLen + 2) :
                 b \in bodies }

\* One call of SimpleLLM.generate.
SimpleGenerate ==
    /\ pipeline # NoInstance
    /\ made[pipeline].llm = "SimpleLLM"
    /\ ~gen.called
    /\ \E prompt \in Prompts, language \in Languages, outcome \in {"ok", "raise"} :
         LET r == Generate(prompt, language, outcome)
         IN  gen' = [called |-> TRUE, prompt |-> prompt, language |-> language,
                     sentences |-> Sentences(prompt),
                     translateCalled |-> r.translateCalled,
                     translateRaised |-> r.translateCalled /\ outcome = "raise",
                     text |-> r.text]
    /\ UNCHANGED <<env, pipeline, made, pc, loc, calls, surfaced, returned, chat, struct>>

\* A process whose selector fell back to the extractive backend.
SimpleInit ==
    /\ AnswerInit
    /\ made[1].llm = "SimpleLLM"

NextSimple == SimpleGenerate

SpecSimple == SimpleInit /\ [][NextSimple]_vars

\* C10: with at least one qualifying line and a language that is set and not
\* "en", a raising translation gives the untranslated English answer followed
\* by the bracketed note naming the language; for "en" or no language
\* translation is not attempted and the English answer is returned.
C10_TranslationFailureKeepsEnglish ==
    (gen.called /\ gen.sentences # <<>>) =>
        LET english == EnglishAnswer(gen.sentences)
            wanted == gen.language \notin {None, "", "en"}
        IN  /\ gen.translateCalled <=> wanted
            /\ gen.translateRaised =>
                 /\ Len(gen.text) = Len(english) + 4
                 /\ SubSeq(gen.text, 1, Len(english)) = english
                 /\ gen.text[Len(english) + 2] = "[Note: Response in "
                 /\ gen.text[Len(english) + 3] = gen.language
                 /\ gen.text[Len(english) + 4] = " unavailable. English provided above.]"
            /\ ~wanted => gen.text = english

\* C10 witness: Tamil requested, a qualifying line, translation raised, and
\* the English answer came back with the note.
C10_Witness ==
    /\ gen.called /\ gen.sentences # <<>> /\ gen.language = "ta"
    /\ gen.translateRaised
    /\ gen.text = EnglishAnswer(gen.sentences) \o Note("ta")

\* The first 4 qualifying lines joined by single spaces, before any cut.
JoinedAnswer(sentences) == Join(Take(sentences, MaxSentences), <<" ">>)

\* C11: when the joined answer is longer than 400 characters, the text
\* generate() builds before translation is at most 400 characters long, is
\* the joined answer cut at a whole-word boundary followed by a period; a
\* joined answer of 400 characters or fewer is returned unmodified.
C11_TruncationWithinLimit ==
    (gen.called /\ gen.sentences # <<>>) =>
        LET joined == JoinedAnswer(gen.sentences)
            english == IF gen.translateCalled THEN EnglishAnswer(gen.sentences) ELSE gen.text
            cut == SubSeq(english, 1, Len(english) - 1)
        IN  IF Len(joined) > MaxAnswerLen
            THEN /\ Len(english) <= MaxAnswerLen
                 /\ english[Len(english)] = "."
                 /\ cut = SubSeq(joined, 1, Len(cut))
                 /\ joined[Len(cut) + 1] = " "
            ELSE english = joined

\* Everything after the first occurrence of the marker, the whole prompt
\* when the marker does not occur.
ContextAfterFirstMarker(prompt) ==
    LET i == Find(prompt, Marker)
    IN  IF i = 0 THEN prompt ELSE SubSeq(prompt, i + Len(Marker), Len(prompt))

\* A passage-separator line: a line that consists of dashes.
IsSeparatorLine(line) == line # <<>> /\ \A i \in 1..Len(line) : line[i] = "-"

RECURSIVE QualifyingLines(_)
\* The stripped lines that are non-empty, longer than 15 characters and not
\* a separator line, in order.
QualifyingLines(lines) ==
    IF lines = <<>> THEN <<>>
    ELSE LET sl == Strip(Head(lines))
         IN  (IF sl # <<>> /\ Len(sl) > MinLineLen /\ ~IsSeparatorLine(sl)
              THEN <<sl>> ELSE <<>>) \o QualifyingLines(Tail(lines))

\* C12: the answer is built from the first 4 lines, in order, of everything
\* after the first "Context:" (the whole prompt without the marker) that
\* after stripping are non-empty, longer than 15 characters and not a
\* separator line of dashes; when no line qualifies, generate() returns
\* exactly the canonical no-information text.
C12_LineSelection ==
    gen.called =>
        LET selected == Take(QualifyingLines(Split(ContextAfterFirstMarker(gen.prompt), <<"\n">>)),
                             MaxSentences)
        IN  /\ Take(gen.sentences, MaxSentences) = selected
            /\ selected = <<>> => gen.text = NoInformation
            /\ (selected # <<>> /\ ~gen.translateCalled) => gen.text = EnglishAnswer(selected)

====
